---- MODULE Spec2Model ----
(***************************************************************************)
(* Model of the reranking / deduplication stage of the tech-trend agent    *)
(* (src/src/app/api/agent/route.ts).                                       *)
(*                                                                         *)
(* Representation of the program's values:                                 *)
(*   - a string (title, url, summary, category) is a sequence of tokens;   *)
(*     a token stands for one character of a URL or one word of a text.    *)
(*   - an optional number (relevance) is <<>> when absent and <<n>> when   *)
(*     present.                                                            *)
(*   - a publishedAt string is [kind, ms]: kind "iso" is a string that     *)
(*     Date parses to the instant ms; "garbage" is a non-empty string Date *)
(*     cannot parse; "today" is the literal sentinel; "empty" is "".       *)
(*   - instants are milliseconds, as Date.getTime() and Date.now() give    *)
(*     them, counted from a reference instant instead of from 1970.        *)
(***************************************************************************)
EXTENDS Integers, Sequences, FiniteSets, TLC

VARIABLES now, items, scored, deduped, prev, pass, pc

\* The POST handler: the request, the environment, the handler's position,
\* the extractor's output, the mapped items, the response, and what failed.
VARIABLES request, apiKey, ppc, stage2Content, mappedItems, response, events

\* One invocation of a source adapter tool: the tool, whether its API key is
\* set, the position in the tool's body, the number of the outbound call, the
\* call in flight, what the invocation returned, the outcomes of the calls
\* that completed, the dates of the items in the last response body, and the
\* items of the returned list.
VARIABLES tool, hasKey, tpc, callNo, pending, toolResult, outcomes, upstream,
          returned

\* One call of discoverFeedUrl: the argument, baseUrl, the position, the
\* index of the common path being probed, the page step 1 read, the
\* number of fetches each step issued, whether some fetch got a response, and
\* what the call returned.
VARIABLES siteUrl, baseUrl, dpc, pathIdx, html, body, fetches, reached, found

\* One call of parseFeedContent: the document, maxResults, the position,
\* whether parseAtomEntries was called, and the items returned.
VARIABLES xml, maxResults, fpc, ranAtom, feedOut

rerankVars == <<now, items, scored, deduped, prev, pass, pc>>

postVars == <<request, apiKey, ppc, stage2Content, mappedItems, response, events>>

toolVars ==
    <<tool, hasKey, tpc, callNo, pending, toolResult, outcomes, upstream, returned>>

discoverVars == <<siteUrl, baseUrl, dpc, pathIdx, html, body, fetches, reached, found>>

feedVars == <<xml, maxResults, fpc, ranAtom, feedOut>>

adapterVars == <<toolVars, discoverVars, feedVars>>

vars == <<rerankVars, postVars, adapterVars>>

(***************************************************************************)
(* Bounds of the model.                                                    *)
(***************************************************************************)
MaxItems == 2

MaxPasses == 2

(***************************************************************************)
(* Program constants.                                                      *)
(***************************************************************************)
MsPerHour == 1000 * 60 * 60

DefaultRelevance == 5

NoisePenalty == 3

MinScore == 1

MaxScore == 10

WindowHours == 24

Undefined == "undefined"

NaN == <<>>

\* The words of NOISE_PATTERNS, one token per pattern; the patterns are
\* case-insensitive.
NOISE_PATTERNS ==
    << "ceo", "acquisition", "ipo", "layoff", "funding", "valuation",
       "stock price", "shares drop", "drama", "controversy", "scandal",
       "lawsuit", "regulation", "lobby", "politics", "election",
       "billionaire", "rich list", "net worth" >>

(***************************************************************************)
(* String helpers.                                                         *)
(***************************************************************************)
Range(s) == { s[i] : i \in DOMAIN s }

\* String.prototype.toLowerCase, token by token.
LowerTok(c) ==
    CASE c = "A" -> "a"
      [] c = "B" -> "b"
      [] c = "T" -> "t"
      [] c = "CEO" -> "ceo"
      [] c = "IPO" -> "ipo"
      [] OTHER -> c

toLowerCase(s) == [ i \in 1..Len(s) |-> LowerTok(s[i]) ]

\* s.replace(/\/$/, ""): removes one slash at the end of the string.
StripTrailingSlash(s) ==
    IF Len(s) > 0 /\ s[Len(s)] = "/" THEN SubSeq(s, 1, Len(s) - 1) ELSE s

\* Faulty variant of PatternTest: the patterns carry the g flag, and the
\* lastIndex a match left behind makes the test fail in the next invocation.
PatternTestSticky(w, text) ==
    pc # "ranked" /\ \E i \in DOMAIN text : LowerTok(text[i]) = w

\* pattern.test(text) for the case-insensitive pattern of word w.
PatternTest(w, text) == \E i \in DOMAIN text : LowerTok(text[i]) = w

\* `${item.title} ${item.summary} ${item.category || ""}`
ItemText(item) == item.title \o <<" ">> \o item.summary \o <<" ">> \o item.category

(***************************************************************************)
(* Dates.                                                                  *)
(***************************************************************************)
\* new Date(dateStr).getTime()
getTime(d) == IF d.kind = "iso" THEN <<d.ms>> ELSE NaN

\* !dateStr
IsEmptyString(d) == d.kind = "empty"

\* Faulty variants of isWithin24Hours: the past boundary made exclusive, and the
\* future tolerance widened to one hour.
isWithin24HoursStrict(d, t) ==
    IF IsEmptyString(d) \/ d.kind = "today" THEN TRUE
    ELSE IF getTime(d) = NaN THEN TRUE
    ELSE LET diff == t - getTime(d)[1]
         IN  2 * diff >= -MsPerHour /\ diff < WindowHours * MsPerHour

isWithin24HoursWide(d, t) ==
    IF IsEmptyString(d) \/ d.kind = "today" THEN TRUE
    ELSE IF getTime(d) = NaN THEN TRUE
    ELSE LET diff == t - getTime(d)[1]
         IN  diff >= -MsPerHour /\ diff <= WindowHours * MsPerHour

\* isWithin24Hours(dateStr) evaluated when Date.now() = t.
\* hoursAgo = diff / MsPerHour; hoursAgo >= -0.5 is 2 * diff >= -MsPerHour.
isWithin24Hours(d, t) ==
    IF IsEmptyString(d) \/ d.kind = "today" THEN TRUE
    ELSE IF getTime(d) = NaN THEN TRUE
    ELSE LET diff == t - getTime(d)[1]
         IN  2 * diff >= -MsPerHour /\ diff <= WindowHours * MsPerHour

\* let isFresh = true; if (publishedAt && publishedAt !== "" && publishedAt !== "today") ...
IsFresh(item, t) ==
    IF ~IsEmptyString(item.publishedAt) /\ item.publishedAt.kind # "today"
    THEN isWithin24Hours(item.publishedAt, t)
    ELSE TRUE

(***************************************************************************)
(* Scoring of one item.                                                    *)
(***************************************************************************)
\* item.relevance || 5 : undefined and 0 are falsy.
BaseScore(item) ==
    IF item.relevance = <<>> \/ item.relevance = <<0>>
    THEN DefaultRelevance
    ELSE item.relevance[1]

ImpactBonus(item) ==
    CASE item.impactLevel = "critical" -> 3
      [] item.impactLevel = "high" -> 2
      [] item.impactLevel = "medium" -> 1
      [] OTHER -> 0

RECURSIVE NoiseLoopNoBreak(_, _, _)
\* Faulty variant of NoiseLoop: the break is missing, every matching pattern subtracts.
NoiseLoopNoBreak(text, k, score) ==
    IF k > Len(NOISE_PATTERNS) THEN score
    ELSE IF PatternTest(NOISE_PATTERNS[k], text)
         THEN NoiseLoopNoBreak(text, k + 1, score - NoisePenalty)
         ELSE NoiseLoopNoBreak(text, k + 1, score)

RECURSIVE NoiseLoop(_, _, _)
\* for (const pattern of NOISE_PATTERNS) { if (pattern.test(text)) { score -= 3; break; } }
NoiseLoop(text, k, score) ==
    IF k > Len(NOISE_PATTERNS) THEN score
    ELSE IF PatternTest(NOISE_PATTERNS[k], text)
         THEN score - NoisePenalty
         ELSE NoiseLoop(text, k + 1, score)

Min(a, b) == IF a < b THEN a ELSE b

Max(a, b) == IF a > b THEN a ELSE b

\* Faulty variant of Clamp: the upper limit is missing.
ClampNoCeiling(score) == Max(MinScore, score)

\* Math.max(1, Math.min(10, score))
Clamp(score) == Max(MinScore, Min(MaxScore, score))

\* Faulty variant of DeriveImpact: the level the item arrived with is kept when present.
DeriveImpactKeep(item, score) ==
    IF item.impactLevel # Undefined THEN item.impactLevel
    ELSE IF score >= 8 THEN "high"
    ELSE IF score <= 4 THEN "low"
    ELSE "medium"

\* let impactLevel = "medium"; if (score >= 8) ... else if (score <= 4) ...
DeriveImpact(item, score) ==
    IF score >= 8 THEN "high"
    ELSE IF score <= 4 THEN "low"
    ELSE "medium"

\* The score of one item, lines 149-161.
FinalScore(item, fresh) ==
    LET start == IF fresh THEN BaseScore(item) ELSE 0
    IN  Clamp(NoiseLoop(ItemText(item), 1, start + ImpactBonus(item)))

\* Faulty variant of Spread: the title is rewritten in lower case.
SpreadLowerTitle(item, score, level, fresh) ==
    [ title        |-> toLowerCase(item.title),
      source       |-> item.source,
      summary      |-> item.summary,
      url          |-> item.url,
      publishedAt  |-> item.publishedAt,
      category     |-> item.category,
      relevance    |-> <<score>>,
      impactLevel  |-> level,
      isFresh      |-> fresh ]

\* { ...item, relevance: score, impactLevel, isFresh }
Spread(item, score, level, fresh) ==
    [ title        |-> item.title,
      source       |-> item.source,
      summary      |-> item.summary,
      url          |-> item.url,
      publishedAt  |-> item.publishedAt,
      category     |-> item.category,
      relevance    |-> <<score>>,
      impactLevel  |-> level,
      isFresh      |-> fresh ]

\* The callback of items.map(...), lines 138-168.
ScoreItem(item, t) ==
    LET fresh == IsFresh(item, t)
        score == FinalScore(item, fresh)
    IN  Spread(item, score, DeriveImpact(item, score), fresh)

\* const scored = items.map(...)
Scored(its, t) == [ i \in 1..Len(its) |-> ScoreItem(its[i], t) ]

(***************************************************************************)
(* Filter, sort, deduplicate.                                              *)
(***************************************************************************)
\* Faulty variant of HardFilter: removes the items whose score was floored, not the
\* stale ones.
HardFilterByScore(s) == SelectSeq(s, LAMBDA x : x.relevance[1] > MinScore)

\* Faulty variant of HardFilter: nothing is removed.
HardFilterNone(s) == s

\* scored.filter(item => item.isFresh !== false)
HardFilter(s) == SelectSeq(s, LAMBDA x : x.isFresh # FALSE)

RECURSIVE InsertDesc(_, _)
\* x inserted into the sorted sequence s after every element whose relevance
\* is not below x's (the sort is stable).
InsertDesc(s, x) ==
    IF s = <<>> THEN <<x>>
    ELSE IF Head(s).relevance[1] >= x.relevance[1]
         THEN <<Head(s)>> \o InsertDesc(Tail(s), x)
         ELSE <<x>> \o s

RECURSIVE SortFrom(_, _, _)
SortFrom(s, k, acc) ==
    IF k > Len(s) THEN acc ELSE SortFrom(s, k + 1, InsertDesc(acc, s[k]))

\* Faulty variant of SortByRelevance: the sort is missing.
SortMissing(s) == s

\* filtered.sort((a, b) => b.relevance - a.relevance)
SortByRelevance(s) == SortFrom(s, 1, <<>>)

\* Faulty variant of DedupKey: the URL is not lower-cased.
DedupKeyCaseSensitive(item) ==
    LET u == StripTrailingSlash(item.url)
    IN  IF u # <<>> THEN u ELSE item.title

\* item.url?.toLowerCase().replace(/\/$/, "") || item.title
DedupKey(item) ==
    LET u == StripTrailingSlash(toLowerCase(item.url))
    IN  IF u # <<>> THEN u ELSE item.title

RECURSIVE DedupFrom(_, _, _, _)
\* filtered.filter(item => { if (seen.has(key)) return false; seen.add(key); return true; })
DedupFrom(s, k, seen, acc) ==
    IF k > Len(s) THEN acc
    ELSE LET key == DedupKey(s[k])
         IN  IF key \in seen
             THEN DedupFrom(s, k + 1, seen, acc)
             ELSE DedupFrom(s, k + 1, seen \cup {key}, Append(acc, s[k]))

Dedup(s) == DedupFrom(s, 1, {}, <<>>)

\* Faulty variant of Pipeline: the deduplication runs first, on the scored items in
\* input order, before the stale ones are removed.
PipelineDedupFirst(s) == SortByRelevance(HardFilter(Dedup(s)))

\* The stages after the map: filter, then sort, then deduplicate.
Pipeline(s) == Dedup(SortByRelevance(HardFilter(s)))

\* rerank(items) evaluated when Date.now() = t.
rerank(its, t) == Pipeline(Scored(its, t))

(***************************************************************************)
(* The inputs the model draws.                                             *)
(***************************************************************************)
Epoch == 100 * MsPerHour

Iso(ms) == [kind |-> "iso", ms |-> ms]

EmptyDate == [kind |-> "empty", ms |-> 0]

Today == [kind |-> "today", ms |-> 0]

Garbage == [kind |-> "garbage", ms |-> 0]

TwoHoursAgo == Iso(Epoch - 2 * MsPerHour)

TwoDaysAgo == Iso(Epoch - 48 * MsPerHour)

PublishedAts ==
    { Iso(Epoch + 2 * MsPerHour),                 \* 2 h in the future
      Iso(Epoch + 30 * 60 * 1000 + 1000),         \* 30 min 1 s in the future
      Iso(Epoch + 30 * 60 * 1000 + 1),            \* 30 min 1 ms in the future
      Iso(Epoch + 30 * 60 * 1000),                \* 30 min in the future
      TwoHoursAgo,
      Iso(Epoch - 24 * MsPerHour + 1000),         \* 23 h 59 min 59 s ago
      Iso(Epoch - 24 * MsPerHour),                \* 24 h ago
      Iso(Epoch - 24 * MsPerHour - 1),            \* 24 h and 1 ms ago
      TwoDaysAgo,
      EmptyDate, Today, Garbage }

Mk(title, url, rel, date, impact) ==
    [ title |-> title, source |-> "src", summary |-> <<"s">>, url |-> url,
      publishedAt |-> date, category |-> <<"General">>,
      relevance |-> rel, impactLevel |-> impact ]

\* Items that differ in their dates.
PoolFresh ==
    { Mk(<<"t">>, u, <<6>>, d, Undefined) :
        u \in { <<"a">>, <<"b">> }, d \in PublishedAts }

\* Items that differ in what the score is computed from: fresh ones of every
\* relevance, impact level and noise, and stale ones of every relevance.
PoolScore ==
    { Mk(ti, <<"a">>, r, TwoHoursAgo, im) :
        ti \in { <<"t">>, <<"CEO">>, <<"CEO", "IPO">> },
        r \in { <<>>, <<0>>, <<-2>>, <<3>>, <<7>>, <<15>> },
        im \in { Undefined, "critical", "high", "medium", "low" } }
    \cup
    { Mk(<<"t">>, <<"a">>, r, TwoDaysAgo, "critical") :
        r \in { <<>>, <<0>>, <<-2>>, <<3>>, <<7>>, <<15>> } }

\* Items that differ in their deduplication keys; the stale ones have the
\* higher relevance.
PoolDedup ==
    { Mk(ti, u, rd[1], rd[2], Undefined) :
        ti \in { <<"a">>, <<"t">> },
        u \in { <<>>, <<"/">>, <<"a">>, <<"A", "/">> },
        rd \in { << <<6>>, TwoHoursAgo >>, << <<9>>, TwoHoursAgo >>,
                 << <<9>>, TwoDaysAgo >> } }

\* Items that differ in score and noise, with two URLs.
PoolOrder ==
    { Mk(ti, u, r, TwoHoursAgo, im) :
        ti \in { <<"t">>, <<"CEO">>, <<"IPO", "CEO">> },
        u \in { <<"a">>, <<"b">> },
        r \in { <<4>>, <<5>> },
        im \in { Undefined, "high" } }

Lists(pool, n) == UNION { [ 1..k -> pool ] : k \in 0..n }

Inputs ==
    ({Epoch} \X Lists(PoolFresh, MaxItems))
    \cup ({Epoch + 1000} \X Lists(PoolFresh, MaxItems - 1))
    \cup ({Epoch} \X Lists(PoolScore, MaxItems - 1))
    \cup ({Epoch} \X Lists(PoolDedup, MaxItems))
    \cup ({Epoch} \X Lists(PoolOrder, MaxItems))

(***************************************************************************)
(* The state machine.                                                      *)
(***************************************************************************)
NoResponse == [status |-> 0, error |-> "", newsItems |-> <<>>]

NoContent == [kind |-> "none", items |-> <<>>]

\* No request is being handled.
PostIdle ==
    /\ request = [body |-> "none", jobRole |-> "none"]
    /\ apiKey = FALSE
    /\ ppc = "idle"
    /\ stage2Content = NoContent
    /\ mappedItems = <<>>
    /\ response = NoResponse
    /\ events = {}

NoCall == [via |-> "none", armed |-> FALSE, hangs |-> FALSE]

ToolsIdle ==
    /\ tool = "none"
    /\ hasKey = FALSE
    /\ tpc = "idle"
    /\ callNo = 0
    /\ pending = NoCall
    /\ toolResult = "none"
    /\ outcomes = <<>>
    /\ upstream = <<>>
    /\ returned = <<>>

NoFetches == [step1 |-> 0, step2 |-> 0, step3 |-> 0]

NotReturned == [kind |-> "none", url |-> <<>>]

DiscoverIdle ==
    /\ siteUrl = <<>>
    /\ baseUrl = <<>>
    /\ dpc = "idle"
    /\ pathIdx = 0
    /\ html = <<>>
    /\ body = <<>>
    /\ fetches = NoFetches
    /\ reached = FALSE
    /\ found = NotReturned

FeedIdle ==
    /\ xml = <<>>
    /\ maxResults = 0
    /\ fpc = "idle"
    /\ ranAtom = FALSE
    /\ feedOut = <<>>

RerankIdle ==
    /\ now = Epoch
    /\ items = <<>>
    /\ scored = <<>>
    /\ deduped = <<>>
    /\ prev = <<>>
    /\ pass = 1
    /\ pc = "idle"

Init ==
    /\ \E in \in Inputs : now = in[1] /\ items = in[2]
    /\ scored = <<>>
    /\ deduped = <<>>
    /\ prev = <<>>
    /\ pass = 1
    /\ pc = "ready"
    /\ PostIdle
    /\ ToolsIdle
    /\ DiscoverIdle
    /\ FeedIdle

\* One call of rerank(items).
Rerank ==
    /\ pc = "ready"
    /\ scored' = Scored(items, now)
    /\ deduped' = rerank(items, now)
    /\ pc' = "ranked"
    /\ UNCHANGED <<now, items, prev, pass>>
    /\ UNCHANGED <<postVars, adapterVars>>

\* The list rerank returned is handed to rerank again.
Resubmit ==
    /\ pc = "ranked"
    /\ pass < MaxPasses
    /\ items' = deduped
    /\ prev' = deduped
    /\ pass' = pass + 1
    /\ scored' = <<>>
    /\ deduped' = <<>>
    /\ pc' = "ready"
    /\ UNCHANGED now
    /\ UNCHANGED <<postVars, adapterVars>>

\* rerank is called once more with the list it was just called with.
Reinvoke ==
    /\ pc = "ranked"
    /\ prev' = deduped
    /\ scored' = Scored(items, now)
    /\ deduped' = rerank(items, now)
    /\ pc' = "again"
    /\ UNCHANGED <<now, items, pass>>
    /\ UNCHANGED <<postVars, adapterVars>>

Next == Rerank \/ Resubmit \/ Reinvoke

Spec == Init /\ [][Next]_vars

(***************************************************************************)
(* Vocabulary of the properties, written from the claims' own words.       *)
(***************************************************************************)
Ranked == pc = "ranked"

HalfHourMs == 30 * 60 * 1000

DayMs == 24 * 60 * 60 * 1000

Parseable(it) == it.publishedAt.kind = "iso"

Elapsed(it) == now - it.publishedAt.ms

InWindow(it) == Elapsed(it) >= -HalfHourMs /\ Elapsed(it) <= DayMs

\* The freshness check failed: a parseable date outside the window.
Stale(it) == Parseable(it) /\ ~InWindow(it)

\* What rerank leaves alone of an item.
Payload(x) ==
    [ title |-> x.title, source |-> x.source, summary |-> x.summary,
      url |-> x.url, publishedAt |-> x.publishedAt, category |-> x.category ]

\* Input item i is in the output.
Survives(i) == \E k \in DOMAIN deduped : Payload(deduped[k]) = Payload(items[i])

CanonUrl(u) == StripTrailingSlash(toLowerCase(u))

\* The key two items are duplicates under: the canonical URL, or the title
\* when the canonical URL is empty.
KeyOf(it) == IF CanonUrl(it.url) = <<>> THEN it.title ELSE CanonUrl(it.url)

\* No other input item has item i's key.
Unshadowed(i) ==
    \A j \in DOMAIN items : j # i => KeyOf(items[j]) # KeyOf(items[i])

NoiseCount(it) ==
    Cardinality({ p \in DOMAIN NOISE_PATTERNS :
                    PatternTest(NOISE_PATTERNS[p], ItemText(it)) })

\* Base plus bonus minus penalty, before the clamp.
RawScore(it) ==
    (IF it.relevance = <<>> \/ it.relevance = <<0>> THEN 5 ELSE it.relevance[1])
    + (CASE it.impactLevel = "critical" -> 3
         [] it.impactLevel = "high" -> 2
         [] it.impactLevel = "medium" -> 1
         [] OTHER -> 0)
    - (IF NoiseCount(it) > 0 THEN 3 ELSE 0)

(***************************************************************************)
(* C1                                                                      *)
(***************************************************************************)
\* C1 as stated: a candidate published exactly 24h00m00s before now is not in
\* rerank's output, and one published 23h59m59s before now is.
C1_Original ==
    Ranked =>
      \A i \in DOMAIN items :
        Parseable(items[i]) =>
          /\ (Elapsed(items[i]) = DayMs => ~Survives(i))
          /\ (Elapsed(items[i]) = DayMs - 1000 /\ Unshadowed(i) => Survives(i))

\* C1 amended: the window is closed at 24 h. A candidate published exactly
\* 24h00m00s before now is in rerank's output, as is one published 23h59m59s
\* before now; a candidate published more than 24 h before now, by as
\* little as one millisecond, is not.
C1_Boundary ==
    Ranked =>
      \A i \in DOMAIN items :
        Parseable(items[i]) =>
          /\ (Elapsed(items[i]) = DayMs /\ Unshadowed(i) => Survives(i))
          /\ (Elapsed(items[i]) = DayMs - 1000 /\ Unshadowed(i) => Survives(i))
          /\ (Elapsed(items[i]) > DayMs => ~Survives(i))

C1_Witness ==
    /\ Ranked
    /\ \E i, j \in DOMAIN items :
         /\ Parseable(items[i]) /\ Elapsed(items[i]) = DayMs /\ Survives(i)
         /\ Parseable(items[j]) /\ Elapsed(items[j]) = DayMs + 1 /\ ~Survives(j)

(***************************************************************************)
(* C2                                                                      *)
(***************************************************************************)
\* C2: a candidate published 30 minutes after now is kept and one published
\* 2 hours after now is dropped; a parseable timestamp is fresh iff the
\* elapsed time lies in [-0.5 h, 24 h].
C2_FutureTolerance ==
    Ranked =>
      \A i \in DOMAIN items :
        Parseable(items[i]) =>
          /\ (Elapsed(items[i]) = -HalfHourMs /\ Unshadowed(i) => Survives(i))
          /\ (Elapsed(items[i]) = -4 * HalfHourMs => ~Survives(i))
          /\ (scored[i].isFresh <=> InWindow(items[i]))
          /\ (~InWindow(items[i]) => ~Survives(i))
          /\ (InWindow(items[i]) /\ Unshadowed(i) => Survives(i))

C2_Witness ==
    /\ Ranked
    /\ \E i, j \in DOMAIN items :
         /\ Parseable(items[i]) /\ Elapsed(items[i]) = -HalfHourMs /\ Survives(i)
         /\ Parseable(items[j]) /\ Elapsed(items[j]) = -4 * HalfHourMs
         /\ ~Survives(j)

(***************************************************************************)
(* C3                                                                      *)
(***************************************************************************)
\* C3 as stated: rerank applied to its own output returns the same items in
\* the same order with the same relevance and impactLevel.
C3_Original == Ranked /\ pass >= 2 => deduped = prev

\* C3 amended: rerank applied to its own output returns the same items (no
\* item is removed or added, and every title, url, source, summary,
\* publishedAt and category is the same); their relevance and impactLevel,
\* and with them the order, may differ.
C3_SameItems ==
    Ranked /\ pass >= 2 =>
      /\ Len(deduped) = Len(prev)
      /\ { Payload(deduped[k]) : k \in DOMAIN deduped }
           = { Payload(prev[k]) : k \in DOMAIN prev }

C3_Witness ==
    /\ Ranked
    /\ pass = 2
    /\ Len(prev) >= 2
    /\ Len(deduped) = Len(prev)
    /\ \E k \in DOMAIN prev : Payload(deduped[k]) # Payload(prev[k])

(***************************************************************************)
(* C4                                                                      *)
(***************************************************************************)
FreshIdx == { i \in DOMAIN items : scored[i].isFresh }

\* Index b is the best of the group g: the highest final score, and among
\* equal scores the first in the input.
BestOf(b, g) ==
    /\ b \in g
    /\ \A j \in g :
         \/ scored[b].relevance[1] > scored[j].relevance[1]
         \/ scored[b].relevance[1] = scored[j].relevance[1] /\ b <= j

\* C4 as stated, read of the candidates that carry a URL: of the fresh
\* candidates whose URLs are equal after
\* lower-casing and stripping a trailing slash, exactly one is in the output,
\* and it is the one with the highest final score (the first in the input
\* among equal scores).
C4_Original ==
    Ranked =>
      \A i \in { j \in FreshIdx : items[j].url # <<>> } :
        LET g == { j \in FreshIdx : CanonUrl(items[j].url) = CanonUrl(items[i].url) }
            o == { k \in DOMAIN deduped : CanonUrl(deduped[k].url) = CanonUrl(items[i].url) }
        IN  /\ Cardinality(o) = 1
            /\ \A k \in o : \E b \in g : BestOf(b, g) /\ deduped[k] = scored[b]

\* C4 amended: of the fresh candidates that have the same deduplication key
\* (the URL lower-cased and stripped of a trailing slash or, when that is
\* empty, the title), exactly one is in the output, and it is the one with the
\* highest final score (the first in the input among equal scores).
C4_DedupByKey ==
    Ranked =>
      \A i \in FreshIdx :
        LET g == { j \in FreshIdx : KeyOf(items[j]) = KeyOf(items[i]) }
            o == { k \in DOMAIN deduped : KeyOf(deduped[k]) = KeyOf(items[i]) }
        IN  /\ Cardinality(o) = 1
            /\ \A k \in o : \E b \in g : BestOf(b, g) /\ deduped[k] = scored[b]

C4_Witness ==
    /\ Ranked
    /\ \E i, j \in FreshIdx :
         /\ i < j
         /\ items[i].url # items[j].url
         /\ CanonUrl(items[i].url) = CanonUrl(items[j].url)
         /\ CanonUrl(items[i].url) # <<>>
         /\ scored[i].relevance[1] < scored[j].relevance[1]
         /\ Len(deduped) = 1
         /\ deduped[1] = scored[j]

(***************************************************************************)
(* C5                                                                      *)
(***************************************************************************)
\* C5: every item of the output has a relevance between 1 and 10, whatever
\* relevance, impact level and noise the candidate came with; a fresh
\* candidate whose score after bonus and penalty is below 1 reports exactly 1.
C5_ScoreClamp ==
    Ranked =>
      /\ \A k \in DOMAIN deduped :
           deduped[k].relevance[1] >= 1 /\ deduped[k].relevance[1] <= 10
      /\ \A i \in DOMAIN items :
           ~Stale(items[i]) /\ RawScore(items[i]) < 1 =>
             /\ scored[i].relevance = <<1>>
             /\ (Unshadowed(i) =>
                   \E k \in DOMAIN deduped :
                     /\ Payload(deduped[k]) = Payload(items[i])
                     /\ deduped[k].relevance = <<1>>)

C5_Witness ==
    /\ Ranked
    /\ \E i \in DOMAIN items :
         /\ ~Stale(items[i])
         /\ RawScore(items[i]) < 1
         /\ \E k \in DOMAIN deduped : deduped[k] = scored[i] /\ deduped[k].relevance = <<1>>

(***************************************************************************)
(* C6                                                                      *)
(***************************************************************************)
\* C6: a candidate whose text matches two or more noise patterns gets the
\* same final relevance as an otherwise identical candidate whose text
\* matches exactly one.
C6_NoiseOnce ==
    Ranked =>
      \A i, j \in DOMAIN items :
        /\ NoiseCount(items[i]) >= 2
        /\ NoiseCount(items[j]) = 1
        /\ items[i].relevance = items[j].relevance
        /\ items[i].impactLevel = items[j].impactLevel
        /\ Stale(items[i]) = Stale(items[j])
        => scored[i].relevance = scored[j].relevance

C6_Witness ==
    /\ Ranked
    /\ \E i, j \in DOMAIN items :
         /\ NoiseCount(items[i]) >= 2
         /\ NoiseCount(items[j]) = 1
         /\ items[i].relevance = items[j].relevance
         /\ items[i].impactLevel = items[j].impactLevel
         /\ \E k, l \in DOMAIN deduped :
              /\ deduped[k] = scored[i]
              /\ deduped[l] = scored[j]
              /\ k # l
              /\ deduped[k].relevance = deduped[l].relevance
              /\ deduped[k].relevance[1] > 1

(***************************************************************************)
(* C7                                                                      *)
(***************************************************************************)
\* C7: no item whose freshness check failed is in the output, whatever its
\* relevance or impact level; when every input item is stale the output is
\* the empty list.
C7_HardFilter ==
    Ranked =>
      /\ \A i \in DOMAIN items : Stale(items[i]) => ~Survives(i)
      /\ \A k \in DOMAIN deduped : ~Stale(deduped[k]) /\ deduped[k].isFresh
      /\ ((\A i \in DOMAIN items : Stale(items[i])) => deduped = <<>>)

C7_Witness ==
    /\ Ranked
    /\ Len(items) >= 2
    /\ \A i \in DOMAIN items : Stale(items[i])
    /\ \E i \in DOMAIN items : items[i].relevance = <<9>>
    /\ deduped = <<>>

(***************************************************************************)
(* C8                                                                      *)
(***************************************************************************)
\* C8: a stale candidate never evicts a fresh candidate with the same
\* deduplication key: the output holds a fresh item with that key and not the
\* stale one. In particular a fresh candidate of relevance 6, no impact level
\* and no noise, next to a stale one of relevance 9 with the same URL, is in
\* the output with relevance 6 and impactLevel medium.
C8_FilterBeforeDedup ==
    Ranked =>
      \A i, j \in DOMAIN items :
        ~Stale(items[i]) /\ Stale(items[j]) /\ KeyOf(items[i]) = KeyOf(items[j]) =>
          /\ ~Survives(j)
          /\ \E k \in DOMAIN deduped :
               KeyOf(deduped[k]) = KeyOf(items[i]) /\ ~Stale(deduped[k])
          /\ ( /\ items[i].relevance = <<6>>
               /\ items[i].impactLevel = Undefined
               /\ NoiseCount(items[i]) = 0
               /\ items[j].relevance = <<9>>
               /\ items[i].url = items[j].url
               /\ Len(items) = 2
               => \E k \in DOMAIN deduped :
                    /\ Payload(deduped[k]) = Payload(items[i])
                    /\ deduped[k].relevance = <<6>>
                    /\ deduped[k].impactLevel = "medium" )

C8_Witness ==
    /\ Ranked
    /\ Len(items) = 2
    /\ Stale(items[1]) /\ items[1].relevance = <<9>>
    /\ ~Stale(items[2]) /\ items[2].relevance = <<6>>
    /\ items[2].impactLevel = Undefined
    /\ items[1].url = items[2].url /\ items[1].url # <<>>
    /\ Len(deduped) = 1
    /\ Payload(deduped[1]) = Payload(items[2])
    /\ deduped[1].impactLevel = "medium"

(***************************************************************************)
(* C9                                                                      *)
(***************************************************************************)
\* C9: in the output impactLevel is a function of the final relevance alone:
\* high iff relevance >= 8, low iff relevance <= 4, medium otherwise; no
\* output item is critical.
C9_ImpactFromScore ==
    Ranked =>
      \A k \in DOMAIN deduped :
        LET r == deduped[k].relevance[1]
            l == deduped[k].impactLevel
        IN  /\ (l = "high" <=> r >= 8)
            /\ (l = "low" <=> r <= 4)
            /\ (l = "medium" <=> (r > 4 /\ r < 8))
            /\ l \in { "high", "medium", "low" }

C9_Witness ==
    /\ Ranked
    /\ \E i \in DOMAIN items :
         /\ items[i].impactLevel = "critical"
         /\ \E k \in DOMAIN deduped :
              deduped[k] = scored[i] /\ deduped[k].impactLevel = "medium"

(***************************************************************************)
(* C10                                                                     *)
(***************************************************************************)
\* C10: the output is sorted by non-increasing final relevance.
C10_SortedDesc ==
    Ranked =>
      \A k, l \in DOMAIN deduped :
        k < l => deduped[k].relevance[1] >= deduped[l].relevance[1]

C10_Witness ==
    /\ Ranked
    /\ Len(items) >= 2
    /\ scored[1].relevance[1] < scored[2].relevance[1]
    /\ Len(deduped) >= 2
    /\ deduped[1] = scored[2]
    /\ deduped[1].relevance[1] > deduped[2].relevance[1]

(***************************************************************************)
(* The POST handler, route.ts lines 301-454.                               *)
(*                                                                         *)
(* An item of the extractor's JSON is a record of the fields the mapping   *)
(* reads. A string field that is absent is the empty sequence (|| treats   *)
(* both alike), an absent number is <<>>, an absent date is EmptyDate.     *)
(***************************************************************************)
RawMk(title, url, date, dateCamel, score, rel, techs, impact, major) ==
    [ title |-> title, source |-> "", summary |-> <<"s">>, url |-> url,
      importance_score |-> score, relevance |-> rel,
      published_at |-> date, publishedAt |-> dateCamel,
      technologies |-> techs, category |-> <<>>,
      impactLevel |-> impact, is_major_announcement |-> major ]

\* A number is truthy when it is present and not 0.
Truthy(n) == n # <<>> /\ n # <<0>>

\* url: item.url || "#"
MapUrl(item) == IF item.url # <<>> THEN item.url ELSE <<"#">>

\* Faulty variant of MapDate: an item without a date is given a date two
\* days before the request.
MapDateStale(item, t) ==
    IF ~IsEmptyString(item.published_at) THEN item.published_at
    ELSE IF ~IsEmptyString(item.publishedAt) THEN item.publishedAt
    ELSE Iso(t - 48 * MsPerHour)

\* publishedAt: item.published_at || item.publishedAt || new Date().toISOString()
MapDate(item, t) ==
    IF ~IsEmptyString(item.published_at) THEN item.published_at
    ELSE IF ~IsEmptyString(item.publishedAt) THEN item.publishedAt
    ELSE Iso(t)

\* The callback of parsed.map(...), lines 419-436, when new Date() is t.
MapItem(item, t) ==
    [ title |-> IF item.title # <<>> THEN item.title ELSE <<"No Title">>,
      source |-> IF item.source # "" THEN item.source ELSE "Unknown",
      summary |-> item.summary,
      url |-> MapUrl(item),
      relevance |->
        IF Truthy(item.importance_score) THEN item.importance_score
        ELSE IF Truthy(item.relevance) THEN item.relevance
        ELSE <<DefaultRelevance>>,
      publishedAt |-> MapDate(item, t),
      category |->
        IF Len(item.technologies) > 0 THEN <<item.technologies[1]>>
        ELSE IF item.category # <<>> THEN item.category
        ELSE <<"General">>,
      impactLevel |->
        IF item.impactLevel # Undefined THEN item.impactLevel
        ELSE IF item.is_major_announcement THEN "critical"
        ELSE Undefined ]

MapItems(raw, t) == [ i \in 1..Len(raw) |-> MapItem(raw[i], t) ]

\* The text the extractor returned, by kind:
\*   array, fenced_array      a JSON array, bare or inside ```json fences
\*   array_null_elem          a JSON array with a null element
\*   object, string, number, null   valid JSON that is not an array
\*   prose_array              prose around a JSON array
\*   broken_array             brackets around text that is not JSON
\*   prose                    text without brackets
NonArrayKinds == { "object", "string", "number", "null" }

InvalidJsonKinds == { "prose_array", "broken_array", "prose" }

\* stage2Content.replace(/```json\n?/g, "").replace(/```\n?/g, "").trim()
Cleaned(content) ==
    IF content.kind = "fenced_array"
    THEN [kind |-> "array", items |-> content.items]
    ELSE content

\* JSON.parse(text): threw, or the value parsed.
JsonParse(content) ==
    IF content.kind \in InvalidJsonKinds
    THEN [threw |-> TRUE, type |-> "none", elems |-> <<>>]
    ELSE IF content.kind \in { "array", "array_null_elem" }
    THEN [threw |-> FALSE, type |-> content.kind, elems |-> content.items]
    ELSE [threw |-> FALSE, type |-> content.kind, elems |-> <<>>]

EmptyArray == [threw |-> FALSE, type |-> "array", elems |-> <<>>]

\* stage2Content.match(/\[[\s\S]*\]/) and JSON.parse(match[0]) in the catch.
RegexExtract(content) ==
    IF content.kind = "prose_array"
    THEN [threw |-> FALSE, type |-> "array", elems |-> content.items]
    ELSE EmptyArray

\* Lines 403-413: the value of parsed.
ParseStage2(content) ==
    LET first == JsonParse(Cleaned(content))
    IN  IF first.threw THEN RegexExtract(content) ELSE first

\* parsed.length (line 415) and parsed.map(...) (line 419) raise a TypeError
\* when parsed is null, when it has no map method, or when an element of the
\* array is null.
MapRaises(parsed) == parsed.type # "array"

\* Faulty variant of CuratedOutcomeRaises: an error of the lookup's fetch is
\* not caught.
CuratedRaisesOnFetch(outcome) == outcome = "fetch_throws"

\* getCuratedSources, lines 243-276: every outcome of the lookup returns a
\* list; nothing is raised.
CuratedOutcomeRaises(outcome) == FALSE

CuratedOutcomes ==
    { "no_role", "no_credentials", "fetch_throws", "not_ok", "bad_json", "ok" }

Ok(list) == [status |-> 200, error |-> "", newsItems |-> list]

Failed(code, message) == [status |-> code, error |-> message, newsItems |-> <<>>]

\* The extractor items the model draws.
PoolRaw ==
    { RawMk(ti, u, d, EmptyDate, <<>>, <<6>>, <<>>, Undefined, FALSE) :
        ti \in { <<"t">>, <<"a">> },
        u \in { <<>>, <<"a">> },
        d \in { EmptyDate, TwoHoursAgo, TwoDaysAgo } }
    \cup
    { RawMk(<<>>, <<"b">>, Today, EmptyDate, <<>>, <<>>, <<>>, Undefined, FALSE),
      RawMk(<<"g">>, <<"c">>, Garbage, EmptyDate, <<>>, <<6>>, <<>>, Undefined, FALSE),
      RawMk(<<"t">>, <<"b">>, EmptyDate, TwoDaysAgo, <<9>>, <<6>>, <<"rust">>,
            Undefined, TRUE),
      RawMk(<<"t">>, <<"b">>, EmptyDate, TwoHoursAgo, <<0>>, <<>>, <<>>,
            "low", TRUE) }

Stage2Contents ==
    { [kind |-> k, items |-> l] :
        k \in { "array", "fenced_array", "prose_array" },
        l \in Lists(PoolRaw, MaxItems) }
    \cup
    { [kind |-> k, items |-> <<>>] :
        k \in NonArrayKinds \cup { "array_null_elem", "broken_array", "prose" } }

\* A request arrives.
PostInit ==
    /\ RerankIdle
    /\ ToolsIdle
    /\ DiscoverIdle
    /\ FeedIdle
    /\ request \in [ body : { "json", "unreadable" },
                     jobRole : { "string", "missing", "not_a_string" } ]
    /\ apiKey \in BOOLEAN
    /\ ppc = "start"
    /\ stage2Content = NoContent
    /\ mappedItems = <<>>
    /\ response = NoResponse
    /\ events = {}

Respond(r) ==
    /\ response' = r
    /\ ppc' = "responded"

\* Lines 304-329: the body is read, jobRole and the credential are checked,
\* the curated sources are looked up.
PostBegin ==
    /\ ppc = "start"
    /\ \/ /\ request.body = "unreadable"
          /\ Respond(Failed(500, "exception"))
          /\ events' = events \cup { "body_unreadable" }
       \/ /\ request.body = "json"
          /\ request.jobRole # "string"
          /\ Respond(Failed(400, "jobRole is required"))
          /\ events' = events \cup { "jobRole_invalid" }
       \/ /\ request.body = "json"
          /\ request.jobRole = "string"
          /\ ~apiKey
          /\ Respond(Failed(500, "OPENAI_API_KEY not configured"))
          /\ events' = events \cup { "credential_missing" }
       \/ /\ request.body = "json"
          /\ request.jobRole = "string"
          /\ apiKey
          /\ \E o \in CuratedOutcomes :
               IF CuratedOutcomeRaises(o)
               THEN /\ Respond(Failed(500, "exception"))
                    /\ events' = events \cup { "curated_failed" }
               ELSE /\ ppc' = "stage1"
                    /\ response' = response
                    /\ events' = IF o = "ok" THEN events
                                 ELSE events \cup { "curated_failed" }
    /\ UNCHANGED <<request, apiKey, stage2Content, mappedItems>>
    /\ UNCHANGED <<rerankVars, adapterVars>>

\* Lines 352-373: the researcher agent runs the tools.
PostStage1 ==
    /\ ppc = "stage1"
    /\ \/ /\ Respond(Failed(500, "exception"))
          /\ events' = events \cup { "researcher_raised" }
       \/ /\ Respond(Ok(<<>>))
          /\ events' = events \cup { "no_tool_data" }
       \/ /\ ppc' = "stage2"
          /\ response' = response
          /\ \E toolFailed \in BOOLEAN :
               events' = IF toolFailed THEN events \cup { "tool_failed" } ELSE events
    /\ UNCHANGED <<request, apiKey, stage2Content, mappedItems>>
    /\ UNCHANGED <<rerankVars, adapterVars>>

\* Lines 385-397: the extractor model is called.
PostStage2 ==
    /\ ppc = "stage2"
    /\ \/ /\ Respond(Failed(500, "exception"))
          /\ events' = events \cup { "extractor_raised" }
          /\ stage2Content' = stage2Content
       \/ /\ \E c \in Stage2Contents : stage2Content' = c
          /\ ppc' = "finish"
          /\ response' = response
          /\ events' = events
    /\ UNCHANGED <<request, apiKey, mappedItems>>
    /\ UNCHANGED <<rerankVars, adapterVars>>

\* Lines 401-447: the extractor's text is parsed, mapped and reranked.
PostFinish ==
    /\ ppc = "finish"
    /\ LET parsed == ParseStage2(stage2Content)
       IN  IF MapRaises(parsed)
           THEN /\ Respond(Failed(500, "exception"))
                /\ events' = events \cup { "mapping_raised" }
                /\ UNCHANGED <<mappedItems, items, scored, deduped>>
           ELSE /\ mappedItems' = MapItems(parsed.elems, now)
                /\ items' = mappedItems'
                /\ scored' = Scored(mappedItems', now)
                /\ deduped' = rerank(mappedItems', now)
                /\ Respond(Ok(deduped'))
                /\ events' = events
    /\ UNCHANGED <<request, apiKey, stage2Content, now, prev, pass, pc>>
    /\ UNCHANGED adapterVars

PostNext == PostBegin \/ PostStage1 \/ PostStage2 \/ PostFinish

SpecPost == PostInit /\ [][PostNext]_vars

(***************************************************************************)
(* Claims about the POST handler.                                          *)
(***************************************************************************)
Responded == ppc = "responded"

\* The handler reached the mapping step and answered with a list.
Mapped == Responded /\ response.status = 200 /\ stage2Content # NoContent

\* The extractor items that arrived with no url and are fresh at the instant
\* of the request.
FreshUrlLess ==
    { i \in DOMAIN stage2Content.items :
        /\ stage2Content.items[i].url = <<>>
        /\ isWithin24Hours(MapItem(stage2Content.items[i], now).publishedAt, now) }

\* The items of the response that stand for a URL-less candidate titled ti.
UrlLessOut(ti) ==
    { k \in DOMAIN response.newsItems :
        /\ response.newsItems[k].title = ti
        /\ CanonUrl(response.newsItems[k].url) \in { <<>>, <<"#">> } }

\* C11: among the fresh candidates that reach the response through the
\* mapping step and rerank with no url, two with the same title collapse to
\* exactly one and two with different titles both survive.
C11_Original ==
    Mapped =>
      \A i, j \in FreshUrlLess :
        i # j =>
          LET ti == stage2Content.items[i].title
              tj == stage2Content.items[j].title
          IN  IF ti = tj
              THEN Cardinality(UrlLessOut(ti)) = 1
              ELSE UrlLessOut(ti) # {} /\ UrlLessOut(tj) # {}

\* C12: when the extractor's output is not valid JSON, or is valid JSON that
\* is not an array, POST responds successfully with an empty newsItems list.
C12_Original ==
    (Responded /\ stage2Content.kind \in NonArrayKinds \cup { "broken_array", "prose" })
      => response.status = 200 /\ response.newsItems = <<>>

FatalEvents ==
    { "body_unreadable", "jobRole_invalid", "credential_missing",
      "researcher_raised", "extractor_raised", "mapping_raised" }

Tools ==
    { "duckduckgo_search", "duckduckgo_news", "google_news_rss",
      "hackernews_search", "reddit_search", "devto_articles",
      "lobsters_search", "read_rss_feed", "github_trending",
      "youtube_search", "scrape_website", "youtube_channel_videos" }

\* The tools that return an error payload when their API key is not set.
NeedsKey(t) == t \in { "youtube_search", "scrape_website", "youtube_channel_videos" }

\* The number of URLs the tool tries (read_rss_feed: discovery, then the feed).
MaxCalls(t) ==
    CASE t = "devto_articles" -> 3
      [] t \in { "reddit_search", "lobsters_search", "read_rss_feed" } -> 2
      [] OTHER -> 1

\* How call n of tool t is made.
Via(t, n) ==
    CASE t \in { "duckduckgo_search", "duckduckgo_news", "scrape_website" } -> "library"
      [] t \in { "google_news_rss", "reddit_search" } -> "fetchWithTimeout"
      [] t = "read_rss_feed" -> IF n = 1 THEN "discoverFeedUrl" ELSE "fetchWithTimeout"
      [] OTHER -> "fetch"

\* fetchWithTimeout passes signal: AbortSignal.timeout(timeoutMs); a plain
\* fetch(url) passes no signal. Every fetch inside discoverFeedUrl goes
\* through fetchWithTimeout. Whether a client library bounds its requests is
\* not decided by this repository's code.
ArmedChoices(via) ==
    CASE via \in { "fetchWithTimeout", "discoverFeedUrl" } -> { TRUE }
      [] via = "fetch" -> { FALSE }
      [] OTHER -> BOOLEAN

HttpOutcomes == { "items", "empty", "malformed", "not_ok", "network_error" }

\* discoverFeedUrl returns a feed URL, returns null, or throws.
DiscoveryOutcomes == { "found", "null", "throws" }

OutcomesOf(via) == IF via = "discoverFeedUrl" THEN DiscoveryOutcomes ELSE HttpOutcomes

\* What the body of tool t does when call n completes with outcome o:
\*   "next"   it goes on to its next URL
\*   "list"   it returns JSON.stringify of a list of items
\*   "error"  it returns JSON.stringify of an error payload
\*   "throw"  an exception is thrown inside the tool's try block
AfterLoop(t, n) == IF n < MaxCalls(t) THEN "next" ELSE "list"

Handle(t, n, o) ==
    CASE t \in { "duckduckgo_search", "duckduckgo_news", "scrape_website",
                 "hackernews_search", "github_trending" } ->
           IF o \in { "items", "empty" } THEN "list" ELSE "throw"
      [] t = "google_news_rss" ->
           IF o \in { "not_ok", "network_error" } THEN "throw" ELSE "list"
      [] t = "reddit_search" ->
           IF o = "items" THEN "list" ELSE AfterLoop(t, n)
      [] t \in { "devto_articles", "lobsters_search" } ->
           IF o \in { "network_error", "malformed" } THEN "throw"
           ELSE IF o = "items" THEN "list"
           ELSE AfterLoop(t, n)
      [] t \in { "youtube_search", "youtube_channel_videos" } ->
           IF o = "not_ok" THEN "error"
           ELSE IF o \in { "items", "empty" } THEN "list"
           ELSE "throw"
      [] t = "read_rss_feed" /\ n = 1 ->
           IF o = "found" THEN "next"
           ELSE IF o = "null" THEN "error"
           ELSE "throw"
      [] OTHER ->
           IF o \in { "not_ok", "network_error" } THEN "throw" ELSE "list"

\* Faulty variant of OuterCatch: read_rss_feed calls discoverFeedUrl outside
\* its try block.
OuterCatchAfterDiscovery(t, n) == ~(t = "read_rss_feed" /\ n = 1)

\* Every tool's body is one try block whose catch returns
\* JSON.stringify({ error: String(error) }).
OuterCatch(t, n) == TRUE

\* The callback of items.filter in parseFeedContent, lines 47-52, when Date.now() is t.
KeepAtParse(item, t) ==
    IF IsEmptyString(item.pubDate) THEN TRUE
    ELSE IF getTime(item.pubDate) = NaN THEN TRUE
    ELSE getTime(item.pubDate)[1] > t - WindowHours * MsPerHour

\* The date strings an upstream item can carry; EmptyDate is a date that is
\* missing or empty.
UpstreamDates ==
    { TwoHoursAgo, TwoDaysAgo, Iso(Epoch - WindowHours * MsPerHour),
      Iso(Epoch + 2 * MsPerHour), EmptyDate, Garbage }

\* The bodies a 2xx response can hold, as the dates of their items; a
\* scraped page is one item.
UpstreamLists(t) ==
    Lists(UpstreamDates, IF t = "scrape_website" THEN 1 ELSE MaxItems)

\* The 24-hour filter tool t applies to an item whose date string is d, when
\* Date.now() is t0: parseFeedContent's filter, the scraper's rejection, the
\* comparison getTime() > oneDayAgoMs of the other adapters, or none.
ToolKeeps(t, d, t0) ==
    CASE t \in { "google_news_rss", "read_rss_feed" } ->
           KeepAtParse([pubDate |-> d], t0)
      [] t = "scrape_website" ->
           ~(~IsEmptyString(d) /\ getTime(d) # NaN
               /\ getTime(d)[1] < t0 - WindowHours * MsPerHour)
      [] t \in { "duckduckgo_search", "duckduckgo_news", "github_trending" } -> TRUE
      [] OTHER ->
           getTime(d) # NaN /\ getTime(d)[1] > t0 - WindowHours * MsPerHour

\* The date the returned item carries.
ToolDate(t, d, t0) ==
    CASE t = "scrape_website" -> IF IsEmptyString(d) THEN Iso(t0) ELSE d
      [] t = "duckduckgo_search" -> EmptyDate
      [] OTHER -> d

\* The items tool t returns for the body u: item number i of the body, with
\* its date.
ToolItems(t, u, t0) ==
    LET kept == SelectSeq([ i \in DOMAIN u |-> [id |-> i, date |-> u[i]] ],
                          LAMBDA it : ToolKeeps(t, it.date, t0))
    IN  [ k \in DOMAIN kept |->
            [id |-> kept[k].id, date |-> ToolDate(t, kept[k].date, t0)] ]

\* A tool is about to be invoked.
ToolsInit ==
    /\ RerankIdle
    /\ PostIdle
    /\ DiscoverIdle
    /\ FeedIdle
    /\ tool \in Tools
    /\ hasKey \in BOOLEAN
    /\ tpc = "start"
    /\ callNo = 0
    /\ pending = NoCall
    /\ toolResult = "none"
    /\ outcomes = <<>>
    /\ upstream = <<>>
    /\ returned = <<>>

\* The tool issues its call number n.
Issue(n) ==
    /\ callNo' = n
    /\ tpc' = "waiting"
    /\ toolResult' = toolResult
    /\ \E a \in ArmedChoices(Via(tool, n)), h \in BOOLEAN :
         /\ Via(tool, n) = "discoverFeedUrl" => ~h
         /\ pending' = [via |-> Via(tool, n), armed |-> a, hangs |-> h]

Return(r) ==
    /\ toolResult' = r
    /\ tpc' = "done"
    /\ pending' = NoCall
    /\ callNo' = callNo

\* Call n completed with outcome o.
Continue(n, o) ==
    LET h == Handle(tool, n, o)
    IN  CASE h = "next" -> Issue(n + 1)
          [] h = "throw" -> Return(IF OuterCatch(tool, n) THEN "error" ELSE "raised")
          [] OTHER -> Return(h)

\* The tool is invoked: the key check, then the first call.
ToolInvoke ==
    /\ tpc = "start"
    /\ IF NeedsKey(tool) /\ ~hasKey THEN Return("error") ELSE Issue(1)
    /\ UNCHANGED <<tool, hasKey, outcomes, upstream, returned>>
    /\ UNCHANGED <<rerankVars, postVars, discoverVars, feedVars>>

\* The upstream answers the call in flight. reddit_search returns the items
\* of a body only if some are left after its filter, and else goes on as for
\* a body without items.
ToolResponse ==
    /\ tpc = "waiting"
    /\ ~pending.hangs
    /\ \E o \in OutcomesOf(pending.via), u \in UpstreamLists(tool) :
         /\ o = "items" <=> u # <<>>
         /\ LET its == ToolItems(tool, u, now)
                eff == IF o = "items" /\ tool = "reddit_search" /\ its = <<>>
                       THEN "empty" ELSE o
            IN  /\ outcomes' = Append(outcomes, o)
                /\ upstream' = u
                /\ returned' = IF Handle(tool, callNo, eff) = "list" THEN its ELSE <<>>
                /\ Continue(callNo, eff)
    /\ UNCHANGED <<tool, hasKey>>
    /\ UNCHANGED <<rerankVars, postVars, discoverVars, feedVars>>

\* The upstream never answers and the armed timeout aborts the call: the
\* call rejects.
ToolTimeout ==
    /\ tpc = "waiting"
    /\ pending.hangs
    /\ pending.armed
    /\ outcomes' = Append(outcomes, "timeout")
    /\ upstream' = <<>>
    /\ returned' = <<>>
    /\ Continue(callNo, "network_error")
    /\ UNCHANGED <<tool, hasKey>>
    /\ UNCHANGED <<rerankVars, postVars, discoverVars, feedVars>>

ToolsNext == ToolInvoke \/ ToolResponse \/ ToolTimeout

SpecTools == ToolsInit /\ [][ToolsNext]_vars

(***************************************************************************)
(* Claims about the adapter tools.                                         *)
(***************************************************************************)
\* C14: whatever its upstream does (network error, non-2xx status, malformed
\* body), a tool invocation that completes returns a JSON list of items or an
\* error payload; no exception leaves the tool.
C14_FailureIsolation ==
    /\ toolResult # "raised"
    /\ tpc = "done" => toolResult \in { "list", "error" }

C14_Witness ==
    /\ tool = "read_rss_feed"
    /\ tpc = "done"
    /\ outcomes = <<"throws">>
    /\ toolResult = "error"

\* C15: every outbound network call an adapter makes with fetch is bounded by
\* a timeout.
C15_Original ==
    (tpc = "waiting" /\ pending.via \in { "fetch", "fetchWithTimeout" })
      => pending.armed

(***************************************************************************)
(* Feed discovery, search-tools.ts lines 337-433.                          *)
(*                                                                         *)
(* A URL string is a sequence of tokens: the scheme with its colon, each   *)
(* slash, the host, each path segment. A page is the sequence of its       *)
(* <link> tags; a tag is [type, order, href], order telling which of the   *)
(* attributes type and href comes first.                                   *)
(***************************************************************************)
MaxTags == 2

COMMON_FEED_PATHS ==
    << <<"/", "feed">>, <<"/", "feed.xml">>, <<"/", "rss">>, <<"/", "rss.xml">>,
       <<"/", "atom.xml">>, <<"/", "atom">>, <<"/", "feed", "/">>,
       <<"/", "rss", "/">>, <<"/", "index.xml">>, <<"/", "blog", "/", "feed">>,
       <<"/", "blog", "/", "rss">>, <<"/", "blog", "/", "feed.xml">>,
       <<"/", "blog", "/", "rss.xml">>, <<"/", "blog", "/", "atom.xml">>,
       <<"/", "blog", "/", "index.xml">>,
       <<"/", "feeds", "/", "posts", "/", "default">>,
       <<"/", "feeds", "/", "posts", "/", "default?alt=rss">>,
       <<"/", ".rss">> >>

\* s.replace(/\/+$/, "")
RECURSIVE StripTrailingSlashes(_)
StripTrailingSlashes(s) ==
    IF s # <<>> /\ s[Len(s)] = "/"
    THEN StripTrailingSlashes(SubSeq(s, 1, Len(s) - 1))
    ELSE s

\* s.startsWith("http"): the scheme tokens and a host name that begins with
\* the letters http.
StartsWithHttp(s) == s # <<>> /\ s[1] \in { "https:", "http:", "httpbin.org" }

\* Lines 348-349.
NormalizeUrl(s) ==
    LET stripped == StripTrailingSlashes(s)
    IN  IF StartsWithHttp(stripped) THEN stripped
        ELSE <<"https:", "/", "/">> \o stripped

\* new URL(s) does not throw: a scheme, two slashes and a host name.
ValidUrl(s) ==
    /\ Len(s) >= 4
    /\ s[1] \in { "https:", "http:" }
    /\ s[2] = "/"
    /\ s[3] = "/"
    /\ s[4] \in { "example.com", "httpbin.org" }

\* `${urlObj.protocol}//${urlObj.host}`
Origin(s) == SubSeq(s, 1, 4)

SiteUrls ==
    { <<"https:", "/", "/", "example.com">>,
      <<"https:", "/", "/", "example.com", "/">>,
      <<"http:", "/", "/", "example.com", "/", "blog", "/", "/">>,
      <<"example.com">>,
      <<"httpbin.org">>,
      <<"not a url">>,
      <<>> }

\* The patterns of feedLinkPatterns, in their order.
feedLinkPatterns ==
    << [type |-> "application/rss+xml", order |-> "type_href"],
       [type |-> "application/atom+xml", order |-> "type_href"],
       [type |-> "application/feed+json", order |-> "type_href"],
       [type |-> "application/rss+xml", order |-> "href_type"],
       [type |-> "application/atom+xml", order |-> "href_type"] >>

FeedTypes == { "application/rss+xml", "application/atom+xml", "application/feed+json" }

Hrefs ==
    { <<"/", "feed.xml">>,
      <<"https:", "/", "/", "feeds.example.org", "/", "rss">>,
      <<"index.xml">> }

LinkTags ==
    [ type : FeedTypes, order : { "type_href", "href_type" }, href : Hrefs ]
    \cup { [type |-> "text/css", order |-> "type_href", href |-> <<"/", "feed.xml">>] }

Pages == UNION { [ 1..k -> LinkTags ] : k \in 0..MaxTags }

\* pattern.exec(html): the first tag of the page the pattern matches, 0 if none.
Exec(pattern, page) ==
    LET hits == { i \in DOMAIN page :
                    page[i].type = pattern.type /\ page[i].order = pattern.order }
    IN  IF hits = {} THEN 0 ELSE CHOOSE i \in hits : \A j \in hits : i <= j

\* The loop over feedLinkPatterns: the href of the first pattern that
\* matches, <<>> if none does.
FirstMatch(page) ==
    LET ps == { p \in DOMAIN feedLinkPatterns : Exec(feedLinkPatterns[p], page) # 0 }
    IN  IF ps = {} THEN <<>>
        ELSE LET p == CHOOSE q \in ps : \A r \in ps : q <= r
             IN  page[Exec(feedLinkPatterns[p], page)].href

\* Lines 375-381.
ResolveHref(href, base) ==
    IF href[1] = "/" THEN Origin(base) \o href
    ELSE IF ~StartsWithHttp(href) THEN base \o <<"/">> \o href
    ELSE href

\* A 2xx response to a probe: its content type, whether the text begins
\* with <?xml, whether it contains <rss, <feed or <channel>.
Bodies == [ contentType : { "text/html", "application/xml" },
            prolog : BOOLEAN, markers : BOOLEAN ]

\* Lines 400-408.
LooksLikeFeedStep2(b) == b.contentType = "application/xml" \/ b.prolog \/ b.markers

\* Line 424.
LooksLikeFeedStep3(b) == b.markers

FoundUrl(u) == [kind |-> "url", url |-> u]

\* discoverFeedUrl is called.
DiscoverInit ==
    /\ RerankIdle
    /\ PostIdle
    /\ ToolsIdle
    /\ FeedIdle
    /\ siteUrl \in SiteUrls
    /\ baseUrl = NormalizeUrl(siteUrl)
    /\ dpc = "step1"
    /\ pathIdx = 0
    /\ html = <<>>
    /\ body = <<>>
    /\ fetches = NoFetches
    /\ reached = FALSE
    /\ found = NotReturned

Finish(r) ==
    /\ found' = r
    /\ dpc' = "done"

\* Lines 389-391 after step 1 found nothing: new URL(baseUrl) throws a
\* TypeError when baseUrl is not a URL.
EnterStep2 ==
    IF ValidUrl(baseUrl)
    THEN /\ dpc' = "step2"
         /\ pathIdx' = 1
         /\ found' = found
    ELSE /\ Finish([kind |-> "raised", url |-> <<>>])
         /\ pathIdx' = pathIdx

\* Step 1, lines 354-387: the page is fetched and scanned for link tags.
\* fetch rejects at once when baseUrl is not a URL.
DiscoverStep1 ==
    /\ dpc = "step1"
    /\ fetches' = [fetches EXCEPT !.step1 = 1]
    /\ \/ /\ reached' = reached
          /\ html' = <<>>
          /\ EnterStep2
       \/ /\ ValidUrl(baseUrl)
          /\ reached' = TRUE
          /\ html' = <<>>
          /\ EnterStep2
       \/ /\ ValidUrl(baseUrl)
          /\ reached' = TRUE
          /\ \E page \in Pages :
               /\ html' = page
               /\ IF FirstMatch(page) # <<>>
                  THEN /\ Finish(FoundUrl(ResolveHref(FirstMatch(page), baseUrl)))
                       /\ pathIdx' = pathIdx
                  ELSE EnterStep2
    /\ UNCHANGED <<siteUrl, baseUrl, body>>
    /\ UNCHANGED <<rerankVars, postVars, toolVars, feedVars>>

\* Faulty variant of NextPath: the loop is left after the first path that
\* is rejected or fails.
NextPathGiveUp ==
    /\ dpc' = "step3"
    /\ UNCHANGED <<pathIdx, found>>

NextPath ==
    IF pathIdx < Len(COMMON_FEED_PATHS)
    THEN /\ pathIdx' = pathIdx + 1
         /\ UNCHANGED <<dpc, found>>
    ELSE /\ dpc' = "step3"
         /\ UNCHANGED <<pathIdx, found>>

\* Step 2, lines 393-417: one common path is probed.
DiscoverProbe ==
    /\ dpc = "step2"
    /\ fetches' = [fetches EXCEPT !.step2 = @ + 1]
    /\ \/ /\ reached' = reached
          /\ NextPath
       \/ /\ reached' = TRUE
          /\ NextPath
       \/ /\ reached' = TRUE
          /\ \E b \in Bodies :
               IF LooksLikeFeedStep2(b)
               THEN /\ Finish(FoundUrl(Origin(baseUrl) \o COMMON_FEED_PATHS[pathIdx]))
                    /\ pathIdx' = pathIdx
               ELSE NextPath
    /\ UNCHANGED <<siteUrl, baseUrl, html, body>>
    /\ UNCHANGED <<rerankVars, postVars, toolVars, feedVars>>

\* Step 3, lines 419-432: the URL itself is fetched again.
DiscoverStep3 ==
    /\ dpc = "step3"
    /\ fetches' = [fetches EXCEPT !.step3 = 1]
    /\ \/ /\ reached' = reached
          /\ body' = <<>>
          /\ Finish([kind |-> "null", url |-> <<>>])
       \/ /\ reached' = TRUE
          /\ body' = <<>>
          /\ Finish([kind |-> "null", url |-> <<>>])
       \/ /\ reached' = TRUE
          /\ \E b \in Bodies :
               /\ body' = <<b>>
               /\ Finish(IF LooksLikeFeedStep3(b) THEN FoundUrl(baseUrl)
                         ELSE [kind |-> "null", url |-> <<>>])
    /\ UNCHANGED <<siteUrl, baseUrl, pathIdx, html>>
    /\ UNCHANGED <<rerankVars, postVars, toolVars, feedVars>>

DiscoverNext == DiscoverStep1 \/ DiscoverProbe \/ DiscoverStep3

SpecDiscover == DiscoverInit /\ [][DiscoverNext]_vars

(***************************************************************************)
(* Claims about feed discovery.                                            *)
(***************************************************************************)
\* The link tags of the page that advertise a feed type.
FeedTags == { i \in DOMAIN html : html[i].type \in FeedTypes }

RootRelative(href) == href[1] = "/"

\* C16: when the page fetch succeeds and the page has a link tag advertising
\* a feed type with a root-relative href, discoverFeedUrl returns that href
\* resolved against the page's origin and fetches no common path and does no
\* step-3 fetch. (Stated for pages all of whose feed links are
\* root-relative, so that whichever tag is matched the result is the same.)
C16_Original ==
    (FeedTags # {} /\ \A i \in FeedTags : RootRelative(html[i].href))
      => /\ dpc = "done"
         /\ found.kind = "url"
         /\ \E i \in FeedTags : found.url = Origin(baseUrl) \o html[i].href
         /\ fetches.step2 = 0
         /\ fetches.step3 = 0

\* C17: discovery reports feed-not-found only when the site was reachable.
C17_Original ==
    (dpc = "done" /\ found.kind = "null") => reached

\* C18: discoverFeedUrl never raises: it completes with a feed URL or with
\* the not-found value.
C18_Original ==
    /\ found.kind # "raised"
    /\ dpc = "done" => found.kind \in { "url", "null" }

(***************************************************************************)
(* Feed parsing, search-tools.ts lines 9-55.                               *)
(*                                                                         *)
(* A feed text is the sequence of its <item> and <entry> blocks. A block   *)
(* is [tag, title, has, link, pubDate, source]: title is <<>> when the     *)
(* block has no title or an empty one, and has is the set of the other     *)
(* fields the block carries. pubDate of an entry is its <updated> or       *)
(* <published> text.                                                       *)
(***************************************************************************)
MaxBlocks == 4

MaxResults == 2

\* The sourceName argument.
SourceName == "label"

Block(tag, title, has, date) ==
    [ tag |-> tag, title |-> title, has |-> has,
      link |-> <<"u">>, pubDate |-> date, source |-> "feed" ]

BlockPool(tag) ==
    { Block(tag, <<"x">>, { "link", "pubDate" }, TwoHoursAgo),
      Block(tag, <<"y">>, { "pubDate", "source" }, TwoHoursAgo),
      Block(tag, <<"x">>, { "link", "pubDate" }, TwoDaysAgo),
      Block(tag, <<>>, { "link", "pubDate" }, TwoHoursAgo),
      Block(tag, <<"x">>, { "link" }, EmptyDate),
      Block(tag, <<"x">>, { "link", "pubDate" }, Garbage) }

\* RSS-only and Atom-only texts, and short texts that mix the two.
Docs ==
    Lists(BlockPool("item"), MaxBlocks)
    \cup Lists(BlockPool("entry"), MaxBlocks)
    \cup Lists(BlockPool("item") \cup BlockPool("entry"), 2)

\* Array.prototype.slice(0, n) for n >= 0.
Slice(s, n) == SubSeq(s, 1, Min(n, Len(s)))

\* xml.match(/<tag>([\s\S]*?)<\/tag>/g) || []
Blocks(doc, tag) == SelectSeq(doc, LAMBDA b : b.tag = tag)

\* The object pushed for a block: a field the block lacks is "", the source
\* of an <item> without <source>, and of every <entry>, is sourceName.
ItemOf(b) ==
    [ title |-> b.title,
      url |-> IF "link" \in b.has THEN b.link ELSE <<>>,
      pubDate |-> IF "pubDate" \in b.has THEN b.pubDate ELSE EmptyDate,
      source |-> IF b.tag = "item" /\ "source" \in b.has THEN b.source
                 ELSE SourceName ]

\* if (title) items.push(...)
RECURSIVE PushTitled(_)
PushTitled(bs) ==
    IF bs = <<>> THEN <<>>
    ELSE (IF Head(bs).title # <<>> THEN <<ItemOf(Head(bs))>> ELSE <<>>)
         \o PushTitled(Tail(bs))

parseRSSItems(doc, max) == PushTitled(Slice(Blocks(doc, "item"), max))

parseAtomEntries(doc, max) == PushTitled(Slice(Blocks(doc, "entry"), max))

\* Faulty variant of NeedsAtom: the fallback is never taken.
NeedsAtomNever(rssItems) == FALSE

\* if (items.length === 0)
NeedsAtom(rssItems) == Len(rssItems) = 0

\* Faulty variant of Bounded: the final slice is missing.
Unbounded(fresh, max) == fresh

\* fresh.slice(0, maxResults)
Bounded(fresh, max) == Slice(fresh, max)

parseFeedContent(doc, max, t) ==
    LET rss == parseRSSItems(doc, max * 3)
        its == IF NeedsAtom(rss) THEN parseAtomEntries(doc, max * 3) ELSE rss
        fresh == SelectSeq(its, LAMBDA it : KeepAtParse(it, t))
    IN  Bounded(fresh, max)

\* parseFeedContent is called.
FeedInit ==
    /\ RerankIdle
    /\ PostIdle
    /\ ToolsIdle
    /\ DiscoverIdle
    /\ xml \in Docs
    /\ maxResults \in 0..MaxResults
    /\ fpc = "called"
    /\ ranAtom = FALSE
    /\ feedOut = <<>>

ParseFeed ==
    /\ fpc = "called"
    /\ fpc' = "returned"
    /\ ranAtom' = NeedsAtom(parseRSSItems(xml, maxResults * 3))
    /\ feedOut' = parseFeedContent(xml, maxResults, now)
    /\ UNCHANGED <<xml, maxResults>>
    /\ UNCHANGED <<rerankVars, postVars, toolVars, discoverVars>>

FeedNext == ParseFeed

SpecFeed == FeedInit /\ [][FeedNext]_vars

(***************************************************************************)
(* Claims about feed parsing.                                              *)
(***************************************************************************)
Returned == fpc = "returned"

AtomOnly == xml # <<>> /\ \A i \in DOMAIN xml : xml[i].tag = "entry"

Titled(b) == b.title # <<>>

Undated(b) == "pubDate" \notin b.has

\* The block's date parses to an instant less than 24 hours before now.
DatedFresh(b) ==
    /\ ~Undated(b)
    /\ b.pubDate.kind = "iso"
    /\ now - b.pubDate.ms < DayMs

Unparseable(b) == ~Undated(b) /\ b.pubDate.kind # "iso"

\* The blocks the extraction that produced the result read.
Used == Blocks(xml, IF ranAtom THEN "entry" ELSE "item")

\* The <item> blocks RSS extraction recovers an item from.
RssRecovered ==
    { i \in 1..Min(3 * maxResults, Len(Blocks(xml, "item"))) :
        Titled(Blocks(xml, "item")[i]) }

\* C19 as stated: Atom extraction runs iff RSS extraction recovered nothing;
\* Atom-only text with a titled entry that is fresh or undated, parsed with
\* max >= 1, gives a non-empty result.
C19_Original ==
    Returned =>
      /\ ranAtom <=> RssRecovered = {}
      /\ (AtomOnly /\ maxResults >= 1
            /\ \E i \in DOMAIN xml :
                 Titled(xml[i]) /\ (DatedFresh(xml[i]) \/ Undated(xml[i])))
           => feedOut # <<>>

\* C19: Atom extraction runs iff RSS extraction recovered nothing, and the
\* result is then drawn from the entries only; Atom-only text parsed with
\* max >= 1 gives a non-empty result exactly when one of its first 3 * max
\* entries is titled and is undated, has an unparseable date, or is dated
\* less than 24 hours before the call.
C19_Fallback ==
    Returned =>
      /\ ranAtom <=> RssRecovered = {}
      /\ \A k \in DOMAIN feedOut : \E i \in DOMAIN Used : feedOut[k] = ItemOf(Used[i])
      /\ (AtomOnly /\ maxResults >= 1)
           => (feedOut # <<>>
                 <=> \E i \in 1..Min(3 * maxResults, Len(xml)) :
                       /\ Titled(xml[i])
                       /\ DatedFresh(xml[i]) \/ Undated(xml[i]) \/ Unparseable(xml[i]))

C19_Witness ==
    /\ Returned
    /\ AtomOnly
    /\ ranAtom
    /\ maxResults = 1
    /\ Len(xml) = 4
    /\ \A i \in 1..3 : ~Titled(xml[i]) \/ ~(DatedFresh(xml[i]) \/ Undated(xml[i]) \/ Unparseable(xml[i]))
    /\ Titled(xml[4]) /\ DatedFresh(xml[4])
    /\ feedOut = <<>>

\* The returned item out is what block b yields: its title, its link and its
\* date, "" for a link or a date it lacks, and missingSource for a source it
\* lacks.
Normalized(out, b, missingSource) ==
    /\ Titled(b)
    /\ out.title = b.title
    /\ out.url = (IF "link" \in b.has THEN b.link ELSE <<>>)
    /\ out.pubDate = (IF Undated(b) THEN EmptyDate ELSE b.pubDate)
    /\ "source" \notin b.has => out.source = missingSource

\* The returned items come from blocks in the order of the document.
InDocumentOrder(missingSource) ==
    \E f \in [ DOMAIN feedOut -> DOMAIN Used ] :
      /\ \A j, k \in DOMAIN feedOut : j < k => f[j] < f[k]
      /\ \A k \in DOMAIN feedOut : Normalized(feedOut[k], Used[f[k]], missingSource)

FilteringTools ==
    Tools \ { "duckduckgo_search", "duckduckgo_news", "github_trending" }

ReturnedList == tpc = "done" /\ toolResult = "list"

\* Item i of the response body is in the returned list.
KeptByTool(i) == \E k \in DOMAIN returned : returned[k].id = i

\* C21: in every adapter that applies a 24-hour filter, an item whose date
\* is missing, empty or unparseable is kept.
C21_Original ==
    (ReturnedList /\ tool \in FilteringTools) =>
      \A i \in DOMAIN upstream : upstream[i].kind # "iso" => KeptByTool(i)

\* C23: no item a tool returns has a known publication time more than 24
\* hours before the call.
C23_Original ==
    ReturnedList =>
      \A k \in DOMAIN returned :
        returned[k].date.kind = "iso" => now - returned[k].date.ms <= DayMs

\* C28: for every parseable timestamp the adapter's filter and the
\* reranker's isWithin24Hours give the same verdict.
C28_Original ==
    (ReturnedList /\ tool \in FilteringTools) =>
      \A i \in DOMAIN upstream :
        upstream[i].kind = "iso"
          => (KeptByTool(i) <=> isWithin24Hours(upstream[i], now))

(***************************************************************************)
(* Further claims about rerank.                                            *)
(***************************************************************************)
\* C22: at the final reranking stage the sentinel "today" is fresh without
\* date parsing and is the only undated case exempt from hard rejection: a
\* candidate whose publishedAt is a non-empty string that is not the
\* sentinel and cannot be parsed as a date is not kept by rerank.
C22_Original ==
    Ranked =>
      \A i \in DOMAIN items :
        /\ items[i].publishedAt.kind = "today" => scored[i].isFresh
        /\ items[i].publishedAt.kind = "garbage" => ~Survives(i)

ClaimedScore(it) ==
    LET base == IF it.relevance = <<>> THEN 5 ELSE it.relevance[1]
        bonus == CASE it.impactLevel = "critical" -> 3
                   [] it.impactLevel = "high" -> 2
                   [] it.impactLevel = "medium" -> 1
                   [] OTHER -> 0
        penalty == IF NoiseCount(it) > 0 THEN 3 ELSE 0
        raw == base + bonus - penalty
    IN  IF raw < 1 THEN 1 ELSE IF raw > 10 THEN 10 ELSE raw

\* C25: the final relevance of a fresh candidate is
\* clamp(base + bonus - penalty, 1, 10), base being the candidate's own
\* relevance whenever one is present.
C25_Original ==
    Ranked =>
      \A i \in DOMAIN items :
        scored[i].isFresh => scored[i].relevance = <<ClaimedScore(items[i])>>

\* C29: every item of the output is a distinct item of the input with its
\* title, url, source, summary, publishedAt and category unchanged, the
\* output is never longer than the input, and the call leaves its input as
\* it was.
C29_NoInvention ==
    /\ [](Ranked =>
            /\ Len(deduped) <= Len(items)
            /\ \E f \in [ DOMAIN deduped -> DOMAIN items ] :
                 /\ \A j, k \in DOMAIN deduped : j # k => f[j] # f[k]
                 /\ \A k \in DOMAIN deduped : Payload(deduped[k]) = Payload(items[f[k]]))
    /\ [][pc = "ready" => items' = items]_vars

C29_Witness ==
    /\ Ranked
    /\ Len(items) = 2
    /\ Len(deduped) = 1
    /\ \E i \in DOMAIN items : ~Survives(i)
    /\ \E i \in DOMAIN items :
         /\ Payload(deduped[1]) = Payload(items[i])
         /\ deduped[1].relevance # items[i].relevance

\* C26: discovery issues its requests one after another: step 1 before any
\* path, the paths in list order, the first accepted path is returned with
\* no later path fetched, and step 3 only after every path was rejected or
\* failed.
C26_Sequential ==
    /\ fetches.step2 > 0 => fetches.step1 = 1
    /\ dpc = "step2" => fetches.step2 = pathIdx - 1 /\ fetches.step3 = 0
    /\ fetches.step3 = 1 =>
         fetches.step2 = Len(COMMON_FEED_PATHS) /\ dpc = "done"
    /\ \A k \in DOMAIN COMMON_FEED_PATHS :
         (dpc = "done" /\ fetches.step2 = k /\ fetches.step3 = 0) =>
           found = FoundUrl(Origin(baseUrl) \o COMMON_FEED_PATHS[k])

\* The third common path is accepted after the first two were not.
C26_Witness ==
    /\ dpc = "done"
    /\ fetches = [step1 |-> 1, step2 |-> 3, step3 |-> 0]
    /\ found = FoundUrl(Origin(baseUrl) \o COMMON_FEED_PATHS[3])

\* C27: step 3 accepts the body it read exactly when step 2's heuristic
\* would accept it.
C27_Original ==
    (dpc = "done" /\ body # <<>>) =>
      (found.kind = "url" <=> LooksLikeFeedStep2(body[1]))

\* The date extractor item i carries: published_at, else publishedAt, else
\* none.
CarriedDate(i) ==
    LET raw == stage2Content.items[i]
    IN  IF raw.published_at.kind # "empty" THEN raw.published_at
        ELSE raw.publishedAt

\* Extractor item i was removed by the hard staleness filter.
DroppedAsStale(i) == scored[i].isFresh = FALSE

\* C30: in POST an extractor item that carries no date, or the sentinel
\* "today", is fresh after the mapping step and rerank, and every item the
\* staleness filter removes carries a parseable date outside the window.
C30_UndatedKept ==
    (Mapped /\ Len(scored) = Len(stage2Content.items)) =>
      \A i \in DOMAIN stage2Content.items :
        /\ CarriedDate(i).kind \in { "empty", "today" } => ~DroppedAsStale(i)
        /\ DroppedAsStale(i) =>
             /\ CarriedDate(i).kind = "iso"
             /\ \/ now - CarriedDate(i).ms > DayMs
                \/ CarriedDate(i).ms - now > HalfHourMs

\* An undated item is answered while a two-day-old one is dropped.
C30_Witness ==
    /\ Mapped
    /\ Len(stage2Content.items) = 2
    /\ Len(scored) = 2
    /\ CarriedDate(1).kind = "empty"
    /\ mappedItems[1].publishedAt = Iso(now)
    /\ CarriedDate(2) = TwoDaysAgo
    /\ DroppedAsStale(2)
    /\ Len(response.newsItems) = 1
    /\ response.newsItems[1].title = mappedItems[1].title

====
